---- MODULE Spec2Model ----
(***************************************************************************)
(* Model of src/app.py, the Streamlit profitability dashboard.             *)
(*                                                                         *)
(* One run of the script is a sequence of steps (pc): load_data, the       *)
(* sidebar widgets, APPLY FILTERS, KPI CALCULATIONS, AUTOMATED INSIGHTS    *)
(* and the tabs.  A widget change reruns the script from the top in a      *)
(* fresh namespace; only the st.cache_data memo and the widget values      *)
(* survive a rerun.                                                        *)
(*                                                                         *)
(* Numbers.  Sales and Cost are integers (amounts in the smallest currency *)
(* unit); every quotient the script forms is kept as an exact fraction     *)
(* <<n, d>> in lowest terms with d > 0, and the three IEEE-754 specials    *)
(* that numpy division produces are <<0,0>> (NaN), <<1,0>> (+inf) and      *)
(* <<-1,0>> (-inf).  Rounding error of binary floating point is therefore  *)
(* not modelled.  The columns Units / "Profit per Unit" and the standard   *)
(* deviations (Margin Volatility, avg_volatility), which need square       *)
(* roots, are left out: no property below reads them.                      *)
(***************************************************************************)
EXTENDS Integers, Sequences, FiniteSets, TLC

VARIABLES
    file,                 \* rows of nassau_clean.xlsx
    cache,                \* st.cache_data memo of load_data()
    session_started,      \* the session holds widget values (a rerun)
    pc,                   \* position of the running script
    df,                   \* app.py:36
    date_range,           \* app.py:48   (widget value, kept across reruns)
    division,             \* app.py:53
    margin_threshold,     \* app.py:59
    product_search,       \* app.py:64
    filtered_df,          \* app.py:69-112
    total_sales,          \* app.py:98
    total_profit,         \* app.py:99
    insights,             \* app.py:131-186
    top_20_count,         \* app.py:156 and app.py:341 (the same global)
    product_summary,      \* app.py:219
    division_summary,     \* app.py:278
    pareto,               \* app.py:328
    top_20_profit_share   \* app.py:342

vars == <<file, cache, session_started, pc, df, date_range, division, margin_threshold,
          product_search, filtered_df, total_sales, total_profit, insights,
          top_20_count, product_summary, division_summary, pareto,
          top_20_profit_share>>

-----------------------------------------------------------------------------
(* Bounds of the model.                                                    *)

\* most rows of a file of the filter family
MaxRows == 3
\* most rows of a file of the metrics family
MaxMetricRows == 2
\* most products (one row each) of a file of the concentration family
MaxProducts == 6

\* names not yet bound in the script's namespace, by type
NoFrame == <<>>
NoFloat == <<>>
NoCount == 0 - 1
NoInsights == [state |-> "unset"]

-----------------------------------------------------------------------------
(* Floating point values as exact fractions with the IEEE specials.        *)

NaN == <<0, 0>>
PosInf == <<1, 0>>
NegInf == <<-1, 0>>

Abs(x) == IF x < 0 THEN -x ELSE x
Sign(x) == IF x > 0 THEN 1 ELSE IF x < 0 THEN -1 ELSE 0
Max(a, b) == IF a >= b THEN a ELSE b

RECURSIVE Gcd(_, _)
Gcd(a, b) == IF b = 0 THEN a ELSE Gcd(b, a % b)

\* the fraction n/d, d # 0, in lowest terms with a positive denominator
Frac(n, d) ==
    LET g == Gcd(Abs(n), Abs(d))
        s == Sign(d)
    IN  <<(s * n) \div g, (s * d) \div g>>

IsNaN(x) == x = NaN
IsFinite(x) == x[2] # 0
FromInt(i) == <<i, 1>>

\* x / y of two floats (numpy true division: x/0 is +-inf, 0/0 is NaN)
FDiv(x, y) ==
    IF IsNaN(x) \/ IsNaN(y) THEN NaN
    ELSE IF ~IsFinite(x)
         THEN IF ~IsFinite(y) THEN NaN
              ELSE <<x[1] * (IF y[1] < 0 THEN -1 ELSE 1), 0>>
    ELSE IF ~IsFinite(y) THEN FromInt(0)
    ELSE IF y[1] = 0 THEN <<Sign(x[1]), 0>>
    ELSE Frac(x[1] * y[2], x[2] * y[1])

\* x * k for an integer k > 0
FScale(x, k) == IF IsFinite(x) THEN Frac(x[1] * k, x[2]) ELSE x

FAdd(x, y) ==
    IF IsNaN(x) \/ IsNaN(y) THEN NaN
    ELSE IF ~IsFinite(x)
         THEN IF ~IsFinite(y) /\ y # x THEN NaN ELSE x
    ELSE IF ~IsFinite(y) THEN y
    ELSE Frac(x[1] * y[2] + y[1] * x[2], x[2] * y[2])

\* x < y, x <= y, x > y: every comparison with NaN is false
FLess(x, y) ==
    /\ ~IsNaN(x) /\ ~IsNaN(y) /\ x # y
    /\ IF ~IsFinite(x) THEN x = NegInf
       ELSE IF ~IsFinite(y) THEN y = PosInf
       ELSE x[1] * y[2] < y[1] * x[2]
FLeq(x, y) == ~IsNaN(x) /\ ~IsNaN(y) /\ (x = y \/ FLess(x, y))
FGreater(x, y) == FLess(y, x)

\* (a / b) * 100 for integers a, b, as `(s1 / s2) * 100` computes it
Pct(a, b) == FScale(FDiv(FromInt(a), FromInt(b)), 100)

-----------------------------------------------------------------------------
(* Series reductions.                                                      *)

RECURSIVE SumInt(_)
SumInt(s) == IF s = <<>> THEN 0 ELSE Head(s) + SumInt(Tail(s))

RECURSIVE SumFloat(_)
SumFloat(s) == IF s = <<>> THEN FromInt(0) ELSE FAdd(Head(s), SumFloat(Tail(s)))

Column(rows, col) == [i \in 1..Len(rows) |-> rows[i][col]]

NotNaN(x) == ~IsNaN(x)

\* Series.mean(): skipna=True drops NaN (and only NaN); empty or all-NaN is NaN
Mean(s) ==
    LET kept == SelectSeq(s, NotNaN)
    IN  IF kept = <<>> THEN NaN
        ELSE FDiv(SumFloat(kept), FromInt(Len(kept)))

-----------------------------------------------------------------------------
(* Text.  A product name and a search text are sequences of characters.    *)

ProductCatalog == <<"Ab", "Ba", "ac", "bb", "bc", "ca", "cb", "cc">>

Chars(name) ==
    CASE name = "Ab" -> <<"A", "b">>
      [] name = "Ba" -> <<"B", "a">>
      [] name = "ac" -> <<"a", "c">>
      [] name = "bb" -> <<"b", "b">>
      [] name = "bc" -> <<"b", "c">>
      [] name = "ca" -> <<"c", "a">>
      [] name = "cb" -> <<"c", "b">>
      [] name = "cc" -> <<"c", "c">>

Lower(c) ==
    CASE c = "A" -> "a"
      [] c = "B" -> "b"
      [] OTHER -> c

\* one pattern character against one subject character under re.IGNORECASE:
\* "." is the regular-expression wildcard
ReCharMatch(p, c) == p = "." \/ Lower(p) = Lower(c)

\* Series.str.contains(pat, case=False): regex=True is the default, so this
\* is re.search(pat, s, re.IGNORECASE) for a pattern of literals and "."
StrContains(s, pat) ==
    \E off \in 0..(Len(s) - Len(pat)) :
        \A j \in 1..Len(pat) : ReCharMatch(pat[j], s[off + j])

-----------------------------------------------------------------------------
(* Input domains.                                                          *)

Divisions == {"X", "Y"}
DivisionOrder == <<"X", "Y">>
Dates == {1, 2}
SearchTexts == {<<>>, <<"a">>, <<".">>}
Thresholds == {10, 60}

\* (Sales, Cost): margin NaN, -inf, 50 %, -100 %
MetricAmounts == {<<0, 0>>, <<0, 1>>, <<2, 1>>, <<1, 2>>}
\* (Sales, Cost): Gross Profit 3, 1, 0, -1
ParetoAmounts == {<<3, 0>>, <<2, 1>>, <<1, 1>>, <<1, 2>>}

Row(p, d, t, a) ==
    [Product |-> p, Division |-> d, Date |-> t, Sales |-> a[1], Cost |-> a[2]]

IndexOf(seq, x) == CHOOSE i \in 1..Len(seq) : seq[i] = x

RowRank(r) ==
    (((IndexOf(ProductCatalog, r.Product) * 4
       + IndexOf(DivisionOrder, r.Division)) * 4 + r.Date) * 8 + r.Sales) * 8
    + r.Cost

\* files of 1..n rows, one representative per multiset of rows
Files(rowset, n) ==
    {s \in UNION {[1..k -> rowset] : k \in 1..n} :
        \A i \in 1..(Len(s) - 1) : RowRank(s[i]) <= RowRank(s[i + 1])}

FilterFiles ==
    Files({Row(p, d, t, <<2, 1>>) :
              p \in {"Ab", "bc"}, d \in Divisions, t \in Dates}, MaxRows)

MetricFiles ==
    Files({Row(p, d, 1, a) :
              p \in {"Ab", "bc"}, d \in Divisions, a \in MetricAmounts},
          MaxMetricRows)

\* one row per product, products 1..k of the catalog, profits non-increasing
ParetoFiles ==
    {s \in UNION {[1..k -> ParetoAmounts] : k \in 1..MaxProducts} :
        \A i \in 1..(Len(s) - 1) : s[i][1] - s[i][2] >= s[i + 1][1] - s[i + 1][2]}

ParetoFile(s) ==
    [i \in 1..Len(s) |->
        Row(ProductCatalog[i], IF i % 2 = 1 THEN "X" ELSE "Y", 1, s[i])]

-----------------------------------------------------------------------------
(* LOAD DATA                                                               *)

\* @st.cache_data load_data(): the first call reads the file and stores it,
\* every call returns a copy of the stored value
LoadData ==
    /\ pc = "load"
    /\ cache' = IF cache = NoFrame THEN file ELSE cache
    /\ df' = cache'
    /\ pc' = "sidebar"
    /\ UNCHANGED <<file, session_started, date_range, division, margin_threshold,
                   product_search, filtered_df, total_sales, total_profit,
                   insights, top_20_count, product_summary, division_summary,
                   pareto, top_20_profit_share>>

-----------------------------------------------------------------------------
(* SIDEBAR FILTERS                                                         *)

SeqMin(s) == CHOOSE x \in {s[i] : i \in 1..Len(s)} :
                 \A i \in 1..Len(s) : x <= s[i]
SeqMax(s) == CHOOSE x \in {s[i] : i \in 1..Len(s)} :
                 \A i \in 1..Len(s) : x >= s[i]
Unique(s) == {s[i] : i \in 1..Len(s)}

\* a widget returns its default on the first run and the user's value after
SidebarFilters ==
    /\ pc = "sidebar"
    /\ date_range' = IF ~session_started
                     THEN <<SeqMin(Column(df, "Date")), SeqMax(Column(df, "Date"))>>
                     ELSE date_range
    /\ division' = IF ~session_started
                   THEN Unique(Column(df, "Division")) ELSE division
    /\ margin_threshold' = IF ~session_started THEN 10 ELSE margin_threshold
    /\ product_search' = IF ~session_started THEN <<>> ELSE product_search
    /\ session_started' = TRUE
    /\ pc' = "filter"
    /\ UNCHANGED <<file, cache, df, filtered_df, total_sales, total_profit,
                   insights, top_20_count, product_summary, division_summary,
                   pareto, top_20_profit_share>>

-----------------------------------------------------------------------------
(* APPLY FILTERS                                                           *)

DateFilter(rows, range) ==
    LET keep(r) == r.Date >= range[1] /\ r.Date <= range[2]
    IN  SelectSeq(rows, keep)

DivisionFilter(rows, allowed) ==
    LET keep(r) == r.Division \in allowed
    IN  SelectSeq(rows, keep)

\* `if product_search:` an empty text leaves the frame alone
SearchFilter(rows, text) ==
    LET keep(r) == StrContains(Chars(r.Product), text)
    IN  IF text # <<>> THEN SelectSeq(rows, keep) ELSE rows

Filtered(rows, range, allowed, text) ==
    SearchFilter(DivisionFilter(DateFilter(rows, range), allowed), text)

\* as ApplyFilters, had load_data handed out the memoized frame itself and
\* the script narrowed that frame in place
ApplyFilters_InPlace ==
    /\ pc = "filter"
    /\ filtered_df' = Filtered(df, date_range, division, product_search)
    /\ cache' = filtered_df'
    /\ pc' = "kpi"
    /\ UNCHANGED <<file, session_started, df, date_range, division,
                   margin_threshold, product_search, total_sales, total_profit,
                   insights, top_20_count, product_summary, division_summary,
                   pareto, top_20_profit_share>>

ApplyFilters ==
    /\ pc = "filter"
    /\ filtered_df' = Filtered(df, date_range, division, product_search)
    /\ pc' = "kpi"
    /\ UNCHANGED <<file, cache, session_started, df, date_range, division, margin_threshold,
                   product_search, total_sales, total_profit, insights,
                   top_20_count, product_summary, division_summary, pareto,
                   top_20_profit_share>>

-----------------------------------------------------------------------------
(* KPI CALCULATIONS                                                        *)

GrossProfit(r) == r.Sales - r.Cost
GrossMargin(r) == Pct(GrossProfit(r), r.Sales)

\* lambda x: "High Risk" if x < margin_threshold else "Safe"
RiskLevel(x, threshold) ==
    IF FLess(x, FromInt(threshold)) THEN "High Risk" ELSE "Safe"

TotalSales(rows) == SumInt(Column(rows, "Sales"))
TotalProfit(rows) == SumInt([i \in 1..Len(rows) |-> GrossProfit(rows[i])])

\* the columns app.py:88-112 add to filtered_df
Derived(rows, threshold) ==
    [i \in 1..Len(rows) |->
        [Product |-> rows[i].Product,
         Division |-> rows[i].Division,
         Date |-> rows[i].Date,
         Sales |-> rows[i].Sales,
         Cost |-> rows[i].Cost,
         GrossProfit |-> GrossProfit(rows[i]),
         GrossMargin |-> GrossMargin(rows[i]),
         RevenueContribution |-> Pct(rows[i].Sales, TotalSales(rows)),
         ProfitContribution |-> Pct(GrossProfit(rows[i]), TotalProfit(rows)),
         RiskLevel |-> RiskLevel(GrossMargin(rows[i]), threshold)]]

KpiCalculations ==
    /\ pc = "kpi"
    /\ filtered_df' = Derived(filtered_df, margin_threshold)
    /\ total_sales' = TotalSales(filtered_df)
    /\ total_profit' = TotalProfit(filtered_df)
    /\ pc' = "insights"
    /\ UNCHANGED <<file, cache, session_started, df, date_range, division,
                   margin_threshold, product_search, insights, top_20_count,
                   product_summary, division_summary, pareto,
                   top_20_profit_share>>

-----------------------------------------------------------------------------
(* groupby, sort_values, head                                              *)

\* the distinct keys of a frame in sorted order (groupby sorts its keys)
GroupKeys(rows, col, order) ==
    LET present(k) == \E i \in 1..Len(rows) : rows[i][col] = k
    IN  SelectSeq(order, present)

\* as GroupRows, keeping only the first row of the group (first() for sum())
GroupRows_FirstOnly(rows, col, k) ==
    LET member(r) == r[col] = k
        g == SelectSeq(rows, member)
    IN  SubSeq(g, 1, IF Len(g) > 1 THEN 1 ELSE Len(g))

\* the rows of one group
GroupRows(rows, col, k) ==
    LET member(r) == r[col] = k
    IN  SelectSeq(rows, member)

KeyOrder(col) == IF col = "Product" THEN ProductCatalog ELSE DivisionOrder

\* groupby(col)["Gross Profit"].sum() as a sequence of (key, sum) in key order
ProfitByGroup(rows, col) ==
    LET keys == GroupKeys(rows, col, KeyOrder(col))
    IN  [i \in 1..Len(keys) |->
            [key |-> keys[i],
             GrossProfit |-> SumInt(Column(GroupRows(rows, col, keys[i]),
                                           "GrossProfit"))]]

\* groupby(col)["Gross Margin (%)"].mean()
MarginByGroup(rows, col) ==
    LET keys == GroupKeys(rows, col, KeyOrder(col))
    IN  [i \in 1..Len(keys) |->
            [key |-> keys[i],
             GrossMargin |-> Mean(Column(GroupRows(rows, col, keys[i]),
                                         "GrossMargin"))]]

\* insert x into a sequence sorted by descending Gross Profit, after its equals
RECURSIVE InsertDesc(_, _)
InsertDesc(x, s) ==
    IF s = <<>> THEN <<x>>
    ELSE IF x.GrossProfit > Head(s).GrossProfit THEN <<x>> \o s
    ELSE <<Head(s)>> \o InsertDesc(x, Tail(s))

\* sort_values(ascending=False); equal values keep their key order
RECURSIVE SortDesc(_)
SortDesc(s) ==
    IF s = <<>> THEN <<>>
    ELSE InsertDesc(s[Len(s)], SortDesc(SubSeq(s, 1, Len(s) - 1)))

\* head(n)
FrameHead(s, n) == SubSeq(s, 1, IF n < Len(s) THEN n ELSE Len(s))

-----------------------------------------------------------------------------
(* AUTOMATED INSIGHTS                                                      *)

\* idxmax(): the first key holding the largest sum
IdxMax(groups) ==
    LET i == CHOOSE i \in 1..Len(groups) :
                /\ \A j \in 1..Len(groups) :
                       groups[j].GrossProfit <= groups[i].GrossProfit
                /\ \A j \in 1..(i - 1) :
                       groups[j].GrossProfit < groups[i].GrossProfit
    IN  groups[i].key

\* idxmin(): NaN is skipped; the first key holding the smallest mean; "nan"
\* when every mean is NaN
IdxMin(groups) ==
    LET valid == {i \in 1..Len(groups) : ~IsNaN(groups[i].GrossMargin)}
    IN  IF valid = {} THEN "nan"
        ELSE LET i == CHOOSE i \in valid :
                         /\ \A j \in valid :
                                FLeq(groups[i].GrossMargin, groups[j].GrossMargin)
                         /\ \A j \in valid :
                                j < i => FLess(groups[i].GrossMargin,
                                               groups[j].GrossMargin)
             IN  groups[i].key

\* filtered_df[Risk Level == "High Risk"]["Product Name"].nunique()
HighRiskCount(rows) ==
    Cardinality({rows[i].Product : i \in
                    {j \in 1..Len(rows) : rows[j].RiskLevel = "High Risk"}})

\* max(1, int(len(profit_summary) * 0.2))
InsightsTop20Count(n) == Max(1, (n * 2) \div 10)

\* (profit_summary.head(k).sum() / profit_summary.sum()) * 100
ProfitShare(ranking, k) ==
    Pct(SumInt(Column(FrameHead(ranking, k), "GrossProfit")),
        SumInt(Column(ranking, "GrossProfit")))

InsightsOf(rows) ==
    LET profit_summary == SortDesc(ProfitByGroup(rows, "Product"))
        dependency_ratio ==
            ProfitShare(profit_summary, InsightsTop20Count(Len(profit_summary)))
    IN  [state |-> "info",
         best_division |-> IdxMax(ProfitByGroup(rows, "Division")),
         worst_margin_product |-> IdxMin(MarginByGroup(rows, "Product")),
         high_risk_count |-> HighRiskCount(rows),
         dependency_ratio |-> dependency_ratio,
         concentration_warning |-> FGreater(dependency_ratio, FromInt(70))]

\* st.warning("No data available for selected filters.")
NoData == [state |-> "warning"]

AutomatedInsights ==
    /\ pc = "insights"
    /\ \/ /\ filtered_df # <<>>
          /\ insights' = InsightsOf(filtered_df)
          /\ top_20_count' =
                 InsightsTop20Count(Len(ProfitByGroup(filtered_df, "Product")))
       \/ /\ filtered_df = <<>>
          /\ insights' = NoData
          /\ UNCHANGED top_20_count
    /\ pc' = "tabs"
    /\ UNCHANGED <<file, cache, session_started, df, date_range, division,
                   margin_threshold, product_search, filtered_df, total_sales,
                   total_profit, product_summary, division_summary, pareto,
                   top_20_profit_share>>

-----------------------------------------------------------------------------
(* TABS                                                                    *)

\* groupby(col).agg({Sales: sum, Gross Profit: sum, Gross Margin (%): mean})
Summary(rows, col) ==
    LET keys == GroupKeys(rows, col, KeyOrder(col))
    IN  [i \in 1..Len(keys) |->
            LET g == GroupRows(rows, col, keys[i])
            IN  [key |-> keys[i],
                 Sales |-> SumInt(Column(g, "Sales")),
                 GrossProfit |-> SumInt(Column(g, "GrossProfit")),
                 GrossMargin |-> Mean(Column(g, "GrossMargin"))]]

\* TAB 1: product_summary with its "Profit Contribution (%)" column
ProductSummary(rows) ==
    LET s == Summary(rows, "Product")
        total == SumInt(Column(s, "GrossProfit"))
    IN  [i \in 1..Len(s) |->
            [key |-> s[i].key,
             Sales |-> s[i].Sales,
             GrossProfit |-> s[i].GrossProfit,
             GrossMargin |-> s[i].GrossMargin,
             ProfitContribution |-> Pct(s[i].GrossProfit, total)]]

\* TAB 2
DivisionSummary(rows) == Summary(rows, "Division")

\* as CumSum, without accumulating (the cumsum() call left out)
CumSum_NoAccumulate(s) == s

\* cumsum()
CumSum(s) == [i \in 1..Len(s) |-> SumInt(SubSeq(s, 1, i))]

\* TAB 4: the ranking with "Cumulative Profit" and "Cumulative %"
Pareto(rows) ==
    LET ranking == SortDesc(ProfitByGroup(rows, "Product"))
        profits == Column(ranking, "GrossProfit")
        cum == CumSum(profits)
    IN  [i \in 1..Len(ranking) |->
            [key |-> ranking[i].key,
             GrossProfit |-> ranking[i].GrossProfit,
             CumulativeProfit |-> cum[i],
             CumulativePct |-> Pct(cum[i], SumInt(profits))]]

\* as TabTop20Count, with the max(1, ...) of the insights
TabTop20Count_AtLeastOne(n) == IF (n * 2) \div 10 < 1 THEN 1 ELSE (n * 2) \div 10

\* int(len(pareto) * 0.2)
TabTop20Count(n) == (n * 2) \div 10

Tabs ==
    /\ pc = "tabs"
    /\ product_summary' = ProductSummary(filtered_df)
    /\ division_summary' = DivisionSummary(filtered_df)
    /\ pareto' = Pareto(filtered_df)
    /\ top_20_count' = TabTop20Count(Len(pareto'))
    /\ top_20_profit_share' = ProfitShare(pareto', top_20_count')
    /\ pc' = "done"
    /\ UNCHANGED <<file, cache, session_started, df, date_range, division,
                   margin_threshold, product_search, filtered_df, total_sales,
                   total_profit, insights>>

-----------------------------------------------------------------------------
(* A widget change: Streamlit stores the new values and runs the script    *)
(* again from its first line in a fresh namespace.                         *)

Rerun ==
    /\ pc = "done"
    /\ \E r \in Dates \X Dates, d \in SUBSET Divisions,
          t \in Thresholds, s \in SearchTexts :
           /\ date_range' = r
           /\ division' = d
           /\ margin_threshold' = t
           /\ product_search' = s
    /\ pc' = "load"
    /\ df' = NoFrame
    /\ filtered_df' = NoFrame
    /\ total_sales' = 0
    /\ total_profit' = 0
    /\ insights' = NoInsights
    /\ top_20_count' = NoCount
    /\ product_summary' = NoFrame
    /\ division_summary' = NoFrame
    /\ pareto' = NoFrame
    /\ top_20_profit_share' = NoFloat
    /\ UNCHANGED <<file, cache, session_started>>

-----------------------------------------------------------------------------

Fresh ==
    /\ cache = NoFrame
    /\ session_started = FALSE
    /\ pc = "load"
    /\ df = NoFrame
    /\ date_range = <<>>
    /\ division = {}
    /\ margin_threshold = 0
    /\ product_search = <<>>
    /\ filtered_df = NoFrame
    /\ total_sales = 0
    /\ total_profit = 0
    /\ insights = NoInsights
    /\ top_20_count = NoCount
    /\ product_summary = NoFrame
    /\ division_summary = NoFrame
    /\ pareto = NoFrame
    /\ top_20_profit_share = NoFloat

Init == file \in FilterFiles /\ Fresh
InitMetrics == file \in MetricFiles /\ Fresh
InitPareto == file \in {ParetoFile(s) : s \in ParetoFiles} /\ Fresh

Next ==
    \/ LoadData
    \/ SidebarFilters
    \/ ApplyFilters
    \/ KpiCalculations
    \/ AutomatedInsights
    \/ Tabs
    \/ Rerun

Spec == Init /\ [][Next]_vars
SpecMetrics == InitMetrics /\ [][Next]_vars
SpecPareto == InitPareto /\ [][Next]_vars

-----------------------------------------------------------------------------
(* Properties.                                                             *)

Done == pc = "done"
NonEmpty == filtered_df # <<>>
Hundred == FromInt(100)

\* the distinct products of the filtered set
NProducts == Len(GroupKeys(filtered_df, "Product", ProductCatalog))

\* text occurs in s as a substring, letter case ignored
LiteralContains(s, text) ==
    \E off \in 0..(Len(s) - Len(text)) :
        \A j \in 1..Len(text) : Lower(text[j]) = Lower(s[off + j])

\* the records the filter specification selects, as the contract words it
Selected(rows, range, allowed, text) ==
    LET keep(r) ==
            /\ range[1] <= r.Date /\ r.Date <= range[2]
            /\ r.Division \in allowed
            /\ (text = <<>> \/ LiteralContains(Chars(r.Product), text))
    IN  SelectSeq(rows, keep)

\* C1: once APPLY FILTERS has run, filtered_df holds exactly the records of
\* df with start <= Date <= end, Division among the allowed ones and the
\* search text empty or a case-insensitive substring of the product name;
\* filtering the result again gives the same result.
C1_FilterSelectsBySubstring ==
    pc = "kpi" =>
        /\ filtered_df = Selected(df, date_range, division, product_search)
        /\ Filtered(filtered_df, date_range, division, product_search)
               = filtered_df

\* C2: with a start date after the end date the run never gets past the
\* filter step: no derivation and no aggregation runs.
C2_InvalidRangeHalts ==
    (session_started /\ date_range[1] > date_range[2]) =>
        pc \in {"load", "sidebar", "filter"}

\* C3: a run over an empty filtered set ends with the "no data" warning,
\* with no top-20 % share attempted and no 0/0 formed (a 0/0 is a NaN share).
C3_EmptyEndsInNoData ==
    (Done /\ ~NonEmpty) =>
        /\ insights = NoData
        /\ top_20_profit_share = NoFloat

\* ceil(0.2 * n)
CeilFifth(n) == (n + 4) \div 5

\* C4: with N > 0 distinct products both the insights and the concentration
\* tab take the first ceil(0.2 * N) products, which is at least one.
C4_TopCountIsCeil ==
    (pc \in {"tabs", "done"} /\ NProducts > 0) =>
        /\ top_20_count = CeilFifth(NProducts)
        /\ top_20_count >= 1

NonDecreasing(s) == \A i \in 1..(Len(s) - 1) : FLeq(s[i], s[i + 1])

ParetoTotal == SumInt(Column(pareto, "GrossProfit"))

\* C5 as stated: for every non-empty filtered set the "Cumulative %" column
\* is non-decreasing and ends at 100.
C5_CumulativePctMonotoneTo100 ==
    (Done /\ NonEmpty) =>
        /\ NonDecreasing(Column(pareto, "CumulativePct"))
        /\ pareto[Len(pareto)].CumulativePct = Hundred

\* C5 amended: the column ends at 100 when total Gross Profit is not zero,
\* and is non-decreasing when, besides, no product has a negative summed
\* Gross Profit.
C5_CumulativePctAmended ==
    (Done /\ NonEmpty /\ ParetoTotal # 0) =>
        /\ pareto[Len(pareto)].CumulativePct = Hundred
        /\ (\A i \in 1..Len(pareto) : pareto[i].GrossProfit >= 0)
               => NonDecreasing(Column(pareto, "CumulativePct"))

C5_Witness ==
    /\ Done
    /\ Len(pareto) >= 3
    /\ \A i \in 1..Len(pareto) : pareto[i].GrossProfit >= 0
    /\ pareto[1].GrossProfit > pareto[2].GrossProfit
    /\ pareto[2].GrossProfit > pareto[3].GrossProfit
    /\ FLess(pareto[1].CumulativePct, pareto[2].CumulativePct)

\* C6, on the filtered sets where a top share can be compared with the
\* products' share of the count (no product with a negative summed Gross
\* Profit): when the per-product summed Gross Profits are not all equal, the
\* top-20 % share shown by the insights and by the tab is at least 20 %.
C6_ShareAtLeast20 ==
    (Done /\ NonEmpty
          /\ (\A k \in 1..Len(pareto) : pareto[k].GrossProfit >= 0)
          /\ (\E i, j \in 1..Len(pareto) :
                 pareto[i].GrossProfit # pareto[j].GrossProfit)) =>
        /\ FLeq(FromInt(20), top_20_profit_share)
        /\ FLeq(FromInt(20), insights.dependency_ratio)

\* every record of the filtered set lies in exactly one group of a summary
Partitioned(summary, col) ==
    /\ \A i \in 1..Len(filtered_df) :
           Cardinality({j \in 1..Len(summary) :
                           summary[j].key = filtered_df[i][col]}) = 1
    /\ SumInt([j \in 1..Len(summary) |->
                  Len(GroupRows(filtered_df, col, summary[j].key))])
           = Len(filtered_df)

\* C7: for both grouping keys the groups' summed Sales add up to total_sales
\* and their summed Gross Profit to total_profit, every filtered record being
\* counted in exactly one group.
C7_GroupSumsEqualTotals ==
    Done =>
        /\ SumInt(Column(product_summary, "Sales")) = total_sales
        /\ SumInt(Column(product_summary, "GrossProfit")) = total_profit
        /\ SumInt(Column(division_summary, "Sales")) = total_sales
        /\ SumInt(Column(division_summary, "GrossProfit")) = total_profit
        /\ Partitioned(product_summary, "Product")
        /\ Partitioned(division_summary, "Division")

C7_Witness ==
    /\ Done
    /\ Len(filtered_df) = 2
    /\ Len(product_summary) = 1
    /\ Len(division_summary) = 2
    /\ filtered_df[1].GrossProfit # filtered_df[2].GrossProfit
    /\ total_profit # 0

\* the mean Gross Margin % of the records of one group that have Sales # 0
MeanOfDefined(col, k) ==
    LET sold(r) == r[col] = k /\ r.Sales # 0
        kept == Column(SelectSeq(filtered_df, sold), "GrossMargin")
    IN  IF kept = <<>> THEN NaN
        ELSE FDiv(SumFloat(kept), FromInt(Len(kept)))

\* C8: a record with Sales = 0 has the undefined-metric sentinel as its
\* Gross Margin %, and the mean of its product group and of its division
\* group is the mean over the group's records with Sales # 0.
C8_ZeroSalesUndefinedExcluded ==
    Done =>
        /\ \A i \in 1..Len(filtered_df) :
               filtered_df[i].Sales = 0 => filtered_df[i].GrossMargin = NaN
        /\ \A j \in 1..Len(product_summary) :
               product_summary[j].GrossMargin
                   = MeanOfDefined("Product", product_summary[j].key)
        /\ \A j \in 1..Len(division_summary) :
               division_summary[j].GrossMargin
                   = MeanOfDefined("Division", division_summary[j].key)

\* one pass of the pipeline over raw rows with the given parameters
RunOnce(rows, range, allowed, threshold, text) ==
    LET f == Derived(Filtered(rows, range, allowed, text), threshold)
        p == Pareto(f)
    IN  [filtered_df |-> f,
         total_sales |-> SumInt(Column(f, "Sales")),
         total_profit |-> SumInt(Column(f, "GrossProfit")),
         insights |-> IF f = <<>> THEN NoData ELSE InsightsOf(f),
         product_summary |-> ProductSummary(f),
         division_summary |-> DivisionSummary(f),
         pareto |-> p,
         top_20_profit_share |-> ProfitShare(p, TabTop20Count(Len(p)))]

\* C9: what a finished run leaves (derived fields, totals, insights,
\* summaries) is what one pass over the raw file with the current filter
\* parameters gives, and the memoized dataset is the raw file throughout.
C9_RunDependsOnCurrentFiltersOnly ==
    /\ cache # NoFrame => cache = file
    /\ Done =>
          [filtered_df |-> filtered_df,
           total_sales |-> total_sales,
           total_profit |-> total_profit,
           insights |-> insights,
           product_summary |-> product_summary,
           division_summary |-> division_summary,
           pareto |-> pareto,
           top_20_profit_share |-> top_20_profit_share]
              = RunOnce(file, date_range, division, margin_threshold,
                        product_search)

\* a finished run after a widget change (the first run has the defaults),
\* which narrowed the file to a non-empty part of it
C9_Witness ==
    /\ Done
    /\ product_search # <<>>
    /\ margin_threshold = 60
    /\ NonEmpty
    /\ Len(filtered_df) < Len(file)

\* C10: with nonzero total Gross Profit, the share of the insights and the
\* share of the tab are equal from five products on; with one to four
\* products the tab sums no product and shows 0 while the insights show the
\* share of the most profitable product.
C10_InsightsAndTabShares ==
    (Done /\ NonEmpty /\ ParetoTotal # 0) =>
        /\ Len(pareto) >= 5 =>
               top_20_profit_share = insights.dependency_ratio
        /\ Len(pareto) <= 4 =>
               /\ top_20_count = 0
               /\ top_20_profit_share = FromInt(0)
               /\ \E i \in 1..Len(pareto) :
                      /\ \A j \in 1..Len(pareto) :
                             pareto[j].GrossProfit <= pareto[i].GrossProfit
                      /\ insights.dependency_ratio
                             = Pct(pareto[i].GrossProfit, ParetoTotal)

C10_Witness ==
    /\ Done
    /\ Len(pareto) >= 5
    /\ ParetoTotal # 0
    /\ pareto[1].GrossProfit > pareto[Len(pareto)].GrossProfit
    /\ top_20_profit_share = insights.dependency_ratio
    /\ FLess(FromInt(0), top_20_profit_share)
    /\ FLess(top_20_profit_share, Hundred)

====
